---- MODULE Spec2Model ----
(***************************************************************************)
(* Model of system/manager/manager.py: the supervisor's startup            *)
(* (manager_init), its control loop (manager_thread), the shutdown         *)
(* sequencer (manager_cleanup), main and the __main__ block.               *)
(*                                                                         *)
(* The main thread is one sequential process; pc is its position.  The     *)
(* environment acts between its steps: other processes set shutdown flags  *)
(* in the parameter store, workers die, SIGTERM is delivered, a call of    *)
(* the loop body raises.                                                   *)
(***************************************************************************)
EXTENDS Integers, Sequences, FiniteSets, TLC

VARIABLES
  pc,            \* position of the main thread
  store,         \* Params: key -> value, Absent when the key has no value
  noboard,       \* os.getenv("NOBOARD") is not None
  block,         \* os.getenv("BLOCK", "").split(",")
  prepareonly,   \* os.getenv("PREPAREONLY") is not None
  handler,       \* the SIGTERM handler of main is installed
  prepared,      \* worker -> the number of its prepare() calls
  workers,       \* managed_processes: worker -> "Stopped" | "Running" | "Stopping"
  ignore,        \* manager_thread's ignore list
  started,       \* manager_thread's started (the last sample of deviceState.started)
  started_prev,  \* manager_thread's started_prev
  onroadFlag,    \* the value last handed to write_onroad_params ("unset" before)
  ci,            \* index of the worker manager_cleanup's current for loop is at
  loopEnd,       \* how manager_thread ended: "none" | "break" | "Exception" | "SystemExit"
  hwAction,      \* the HARDWARE action main invoked: "none" | "uninstall" | "reboot" | "shutdown"
  exitStatus,    \* the process's exit status, NotExited while it runs
  reg_res,       \* manager_init's reg_res, "unset" outside manager_init
  release_channel, \* build_metadata.release_channel as manager_init read it:
                 \* "True" | "False", "unset" before and after manager_init
  \* history variables (read by no action's guard or effect on program state)
  samplePrev,    \* the sample of the previous tick (False before the first)
  clearsOn,      \* clear_all(CLEAR_ON_ONROAD_TRANSITION) calls in the current tick
  clearsOff,     \* clear_all(CLEAR_ON_OFFROAD_TRANSITION) calls in the current tick
  onroadWrites,  \* write_onroad_params calls in the current tick
  published,     \* managerState messages sent in the current tick
  idAtLoopStart, \* the stored DongleId manager_thread read when it built ignore
  startupFailed, \* manager_init raised
  cleanupRan,    \* manager_cleanup was entered
  reportedDead,  \* manager_cleanup logged "everything is dead"
  signalled,     \* workers manager_cleanup has called stop(block=False) on
  waited,        \* workers manager_cleanup's stop(block=True) has returned for
  sigDelivered,  \* a SIGTERM was delivered to the handler
  died,          \* workers that died while running since the last reconciliation
  revived        \* the workers of died that the last reconciliation started again

vars == <<pc, store, noboard, block, prepareonly, handler, prepared, workers,
          ignore, started, started_prev, onroadFlag, ci, loopEnd, hwAction,
          exitStatus, reg_res, release_channel, samplePrev, clearsOn, clearsOff, onroadWrites,
          published, idAtLoopStart,
          startupFailed, cleanupRan, reportedDead, signalled, waited,
          sigDelivered, died, revived>>

----------------------------------------------------------------------------
(* Params                                                                  *)

Absent == "<absent>"

UNREGISTERED_DONGLE_ID == "UnregisteredDevice"

\* the flags the loop scans, in the order of the for statement
ShutdownParams == <<"DoUninstall", "DoShutdown", "DoReboot", "dp_device_reset_conf">>

ShutdownFlags == {ShutdownParams[i] : i \in 1..Len(ShutdownParams)}

\* the keys /data/params/d/dp_* matches
DpKeys == {"dp_device_reset_conf", "dp_device_is_clone", "dp_device_dm_unavailable",
           "dp_vehicle_list"}

\* one key of each of the categories CLEAR_ON_ONROAD_TRANSITION,
\* CLEAR_ON_OFFROAD_TRANSITION and DEVELOPMENT_ONLY
CategoryKeys == {"CurrentRoute", "JoystickDebugMode", "ExperimentalLongitudinalEnabled"}

Keys == ShutdownFlags \cup DpKeys \cup CategoryKeys \cup
        {"LastManagerExitReason", "DongleId", "CompletedTrainingVersion"}

\* the static schema of lifecycle categories
KeyCategory(k) ==
  CASE k \in {"DoUninstall", "DoShutdown", "DoReboot", "LastManagerExitReason"}
         -> "CLEAR_ON_MANAGER_START"
    [] k = "CurrentRoute" -> "CLEAR_ON_ONROAD_TRANSITION"
    [] k = "JoystickDebugMode" -> "CLEAR_ON_OFFROAD_TRANSITION"
    [] k = "ExperimentalLongitudinalEnabled" -> "DEVELOPMENT_ONLY"
    [] OTHER -> "PERSISTENT"

Get(st, k) == st[k]

GetBool(st, k) == st[k] = "1"

Put(st, k, v) == [st EXCEPT ![k] = v]

ClearAll(st, cat) == [k \in Keys |-> IF KeyCategory(k) = cat THEN Absent ELSE st[k]]

----------------------------------------------------------------------------
(* manager_init                                                            *)

\* the clear_all calls that skip the transition categories
StartClearManagerOnly(st, release) ==
  LET s1 == ClearAll(st, "CLEAR_ON_MANAGER_START")
  IN IF release THEN ClearAll(s1, "DEVELOPMENT_ONLY") ELSE s1

\* the clear_all calls at the head of manager_init
StartClear(st, release) ==
  LET s1 == ClearAll(st, "CLEAR_ON_MANAGER_START")
      s2 == ClearAll(s1, "CLEAR_ON_ONROAD_TRANSITION")
      s3 == ClearAll(s2, "CLEAR_ON_OFFROAD_TRANSITION")
  IN IF release THEN ClearAll(s3, "DEVELOPMENT_ONLY") ELSE s3

\* the entries of default_params whose keys the model holds, in list order
default_params == << <<"CompletedTrainingVersion", "0">>,
                     <<"dp_vehicle_list", "">>,
                     <<"dp_device_is_clone", "0">>,
                     <<"dp_device_dm_unavailable", "0">> >>

DefaultKeys == {default_params[i][1] : i \in 1..Len(default_params)}

DefaultOf(k) == (CHOOSE i \in 1..Len(default_params) : default_params[i][1] = k)

\* the value get_support_vehicle_list() returns (a JSON text, never empty)
SupportVehicleList == "cars"

\* the same loop without the "is None" test
RECURSIVE SeedOverwriting(_, _)
SeedOverwriting(st, i) ==
  IF i > Len(default_params) THEN st
  ELSE SeedOverwriting(Put(st, default_params[i][1], default_params[i][2]), i + 1)

\* for k, v in default_params[i..]: if params.get(k) is None: params.put(k, v)
RECURSIVE SeedFrom(_, _)
SeedFrom(st, i) ==
  IF i > Len(default_params) THEN st
  ELSE LET k == default_params[i][1]
           v == default_params[i][2]
       IN SeedFrom(IF Get(st, k) = Absent THEN Put(st, k, v) ELSE st, i + 1)

SeedDefaults(st) == SeedFrom(st, 1)

\* what register() can return: nothing, the sentinel, or an identity
RegisterResults == {Absent, UNREGISTERED_DONGLE_ID, "abc123"}

\* a test that takes the sentinel for a failure as well
RegisteredStrict(r) == r \notin {Absent, UNREGISTERED_DONGLE_ID}

\* "if reg_res:" of manager_init; the else branch raises
Registered(r) == r # Absent

----------------------------------------------------------------------------
(* managed_processes and the process module                                *)

\* managed_processes.values(), in registry order
WorkerOrder == <<"manage_athenad", "uploader", "dmonitoringd", "ui">>

Workers == {WorkerOrder[i] : i \in 1..Len(WorkerOrder)}

Range(s) == {s[i] : i \in 1..Len(s)}

\* the enablement predicate of a worker, against the onroad sample
ShouldRun(w, onroad) == IF w = "dmonitoringd" THEN onroad ELSE TRUE

\* p.stop(block): a blocking stop returns with the worker stopped, a non-blocking
\* one signals a running worker and returns
Stop(ws, w, blocking) ==
  [ws EXCEPT ![w] = IF blocking THEN "Stopped"
                    ELSE IF @ = "Running" THEN "Stopping" ELSE @]

\* ensure_running(procs, started, not_run): every worker that should run and is
\* stopped is started, every other one gets a non-blocking stop
ensure_running(ws, onroad, not_run) ==
  [w \in Workers |->
     IF ShouldRun(w, onroad) /\ w \notin Range(not_run)
     THEN IF ws[w] = "Stopped" THEN "Running" ELSE ws[w]
     ELSE IF ws[w] = "Running" THEN "Stopping" ELSE ws[w]]

\* a prepare loop that skips the processes that do not run offroad
PrepareEnabled(pr) == [w \in Workers |-> IF ShouldRun(w, FALSE) THEN pr[w] + 1 ELSE pr[w]]

\* "for p in managed_processes.values(): p.prepare()" of manager_init
PrepareAll(pr) == [w \in Workers |-> pr[w] + 1]

----------------------------------------------------------------------------
(* manager_thread                                                          *)

\* the category manager_thread clears on a tick, from the sample and started_prev,
\* every tick the sample is true (no test of started_prev)
TransitionClearLevel(s, sp) ==
  IF s THEN "CLEAR_ON_ONROAD_TRANSITION"
  ELSE IF sp THEN "CLEAR_ON_OFFROAD_TRANSITION"
  ELSE "none"

\* the category manager_thread clears on a tick, from the sample and started_prev
TransitionClear(s, sp) ==
  IF s /\ ~sp THEN "CLEAR_ON_ONROAD_TRANSITION"
  ELSE IF ~s /\ sp THEN "CLEAR_ON_OFFROAD_TRANSITION"
  ELSE "none"

\* the loop's call of ensure_running with the pre-loop argument False
LoopReconcileOffroad(ws, s, ign) == ensure_running(ws, FALSE, ign)

\* the loop's call ensure_running(managed_processes.values(), started, not_run=ignore)
LoopReconcile(ws, s, ign) == ensure_running(ws, s, ign)

\* a test that holds on every tick
OnroadChangedAlways(s, sp) == TRUE

\* "if started != started_prev:", the guard of write_onroad_params in the loop
OnroadChanged(s, sp) == s # sp

\* a loop body that goes from ensure_running straight to the scan of the flags
AfterReconcileNoPublish == "scan"

\* the statements after ensure_running in the loop body: the managerState message
\* is built and sent, then the flags are scanned
AfterReconcile == "publish"

\* a loop that builds the list again from the store on every tick
TickIgnoreRebuilt(ign, st, nb, blk) ==
  LET dm    == st["dp_device_dm_unavailable"] = "1"
      clone == st["dp_device_is_clone"] = "1"
      i1 == IF clone \/ dm
            THEN <<"manage_athenad", "uploader">> \o
                 (IF dm THEN <<"dmonitoringd", "dmonitoringmodeld">> ELSE <<>>)
            ELSE <<>>
      i2 == IF st["DongleId"] \in {Absent, UNREGISTERED_DONGLE_ID}
            THEN i1 \o <<"manage_athenad", "uploader">> ELSE i1
      i3 == IF nb THEN Append(i2, "pandad") ELSE i2
      nonempty(x) == x # ""
  IN i3 \o SelectSeq(blk, nonempty)

\* "not_run=ignore" of the loop's ensure_running call: the list built before the loop
TickIgnore(ign, st, nb, blk) == ign

\* the same list with the monitoring test nested under the clone test alone
BuildIgnoreCloneOnly(st, nb, blk) ==
  LET dm    == GetBool(st, "dp_device_dm_unavailable")
      clone == GetBool(st, "dp_device_is_clone")
      i1 == IF clone
            THEN <<"manage_athenad", "uploader">> \o
                 (IF dm THEN <<"dmonitoringd", "dmonitoringmodeld">> ELSE <<>>)
            ELSE <<>>
      i2 == IF Get(st, "DongleId") \in {Absent, UNREGISTERED_DONGLE_ID}
            THEN i1 \o <<"manage_athenad", "uploader">> ELSE i1
      i3 == IF nb THEN Append(i2, "pandad") ELSE i2
      nonempty(x) == x # ""
  IN i3 \o SelectSeq(blk, nonempty)

\* the same list without the DongleId test
BuildIgnoreNoIdentity(st, nb, blk) ==
  LET dm    == GetBool(st, "dp_device_dm_unavailable")
      clone == GetBool(st, "dp_device_is_clone")
      i1 == IF clone \/ dm
            THEN <<"manage_athenad", "uploader">> \o
                 (IF dm THEN <<"dmonitoringd", "dmonitoringmodeld">> ELSE <<>>)
            ELSE <<>>
      i3 == IF nb THEN Append(i1, "pandad") ELSE i1
      nonempty(x) == x # ""
  IN i3 \o SelectSeq(blk, nonempty)

\* the ignore list manager_thread builds before the loop
BuildIgnore(st, nb, blk) ==
  LET dm    == GetBool(st, "dp_device_dm_unavailable")
      clone == GetBool(st, "dp_device_is_clone")
      i1 == IF clone \/ dm
            THEN <<"manage_athenad", "uploader">> \o
                 (IF dm THEN <<"dmonitoringd", "dmonitoringmodeld">> ELSE <<>>)
            ELSE <<>>
      i2 == IF Get(st, "DongleId") \in {Absent, UNREGISTERED_DONGLE_ID}
            THEN i1 \o <<"manage_athenad", "uploader">> ELSE i1
      i3 == IF nb THEN Append(i2, "pandad") ELSE i2
      nonempty(x) == x # ""
  IN i3 \o SelectSeq(blk, nonempty)

\* os.system("rm -fr /data/params/d/dp_*")
RemoveDp(st) == [k \in Keys |-> IF k \in DpKeys THEN Absent ELSE st[k]]

\* the same loop recording a reason only while none is recorded in this scan
RECURSIVE ScanFromFirstWins(_, _)
ScanFromFirstWins(r, i) ==
  IF i > Len(ShutdownParams) THEN r
  ELSE LET param == ShutdownParams[i]
           st == IF param = "dp_device_reset_conf" THEN RemoveDp(r.store) ELSE r.store
       IN IF GetBool(r.store, param)
          THEN ScanFromFirstWins(
                  [store |-> IF r.shutdown THEN st
                             ELSE Put(st, "LastManagerExitReason", param),
                   shutdown |-> TRUE], i + 1)
          ELSE ScanFromFirstWins(r, i + 1)

\* the same loop with shutdown set by the uninstall flag alone
RECURSIVE ScanFromUninstallOnly(_, _)
ScanFromUninstallOnly(r, i) ==
  IF i > Len(ShutdownParams) THEN r
  ELSE LET param == ShutdownParams[i]
       IN IF GetBool(r.store, param)
          THEN ScanFromUninstallOnly(
                  [store |-> Put(IF param = "dp_device_reset_conf"
                                 THEN RemoveDp(r.store) ELSE r.store,
                                 "LastManagerExitReason", param),
                   shutdown |-> r.shutdown \/ param = "DoUninstall"], i + 1)
          ELSE ScanFromUninstallOnly(r, i + 1)

\* the for loop over the shutdown flags from index i on: r.store is the store,
\* r.shutdown the local shutdown.  The reason is recorded without its timestamp.
RECURSIVE ScanFrom(_, _)
ScanFrom(r, i) ==
  IF i > Len(ShutdownParams) THEN r
  ELSE LET param == ShutdownParams[i]
       IN IF GetBool(r.store, param)
          THEN ScanFrom([store |-> Put(IF param = "dp_device_reset_conf"
                                       THEN RemoveDp(r.store) ELSE r.store,
                                       "LastManagerExitReason", param),
                         shutdown |-> TRUE], i + 1)
          ELSE ScanFrom(r, i + 1)

ShutdownScan(st) == ScanFrom([store |-> st, shutdown |-> FALSE], 1)

----------------------------------------------------------------------------
(* main and __main__                                                       *)

\* an if/elif chain that tests DoShutdown before DoReboot
HwDecisionShutdownFirst(st) ==
  IF GetBool(st, "DoUninstall") THEN "uninstall"
  ELSE IF GetBool(st, "DoShutdown") THEN "shutdown"
  ELSE IF GetBool(st, "DoReboot") THEN "reboot"
  ELSE "none"

\* the if/elif chain of main after manager_cleanup
HwDecision(st) ==
  IF GetBool(st, "DoUninstall") THEN "uninstall"
  ELSE IF GetBool(st, "DoReboot") THEN "reboot"
  ELSE IF GetBool(st, "DoShutdown") THEN "shutdown"
  ELSE "none"

NotExited == -1

\* the same without the raise that ends the except Exception clause
ExitStatusSwallowing(outcome) ==
  CASE outcome = "return"     -> 0
    [] outcome = "SystemExit" -> 1
    [] outcome = "Exception"  -> 0

\* the exit status __main__ gives for each way main() ends
ExitStatusOf(outcome) ==
  CASE outcome = "return"     -> 0   \* sys.exit(0)
    [] outcome = "SystemExit" -> 1   \* sys.exit(1) of the SIGTERM handler, uncaught
    [] outcome = "Exception"  -> 1   \* re-raised by the except Exception clause

\* the positions inside the try statement of main (inside manager_thread)
ThreadPcs == {"thread_ignore", "thread_pre", "wait", "edge", "onroad",
              "reconcile", "publish", "scan"}

\* the positions inside manager_cleanup
CleanupPcs == {"cleanup_signal", "cleanup_wait", "cleanup_report"}

\* a manager_cleanup that reports after its first loop
AfterSignalLoopNoWait == "cleanup_report"

\* manager_cleanup after its first loop (stop(block=False) for every process): the
\* second loop, stop(block=True) for every process
AfterSignalLoop == "cleanup_wait"

\* a try statement without the finally clause: manager_cleanup on the normal path only
AfterThreadNoFinally(end) ==
  CASE end = "break"      -> "cleanup_signal"
    [] end = "Exception"  -> "hw"
    [] end = "SystemExit" -> "exit"

\* where main goes when manager_thread ends by break, by an Exception (caught by
\* the except clause) or by SystemExit: the finally clause runs manager_cleanup
AfterThread(end) == "cleanup_signal"

\* a handler that returns without raising
OnSigtermIgnored(p) == p

\* where sys.exit(1), raised by the SIGTERM handler at position p, takes the main
\* thread: out of the try statement through its finally clause, or out of main
OnSigterm(p) == IF p \in ThreadPcs THEN AfterThread("SystemExit") ELSE "exit"

\* manager_init called inside the try statement
OnInitFailureCleanup == "cleanup_signal"

\* where an exception of manager_init goes: main calls it outside the try
\* statement, so it reaches the except Exception clause of __main__
OnInitFailure == "main_fail"

----------------------------------------------------------------------------
(* Bounds and the initial states                                           *)

\* most shutdown flags other processes hold true at once
MaxFlags == 2

\* the values of BLOCK, as split(",") returns them
BlockValues == {<<"">>, <<"uploader", "">>}

\* the stores the supervisor can start with: flag is a shutdown flag the last run
\* left true (or "none"), the other values are what an operator, the last run or
\* nothing left under each key
InitialStores ==
  {[k \in Keys |->
      CASE k = flag -> "1"
        [] k = "DongleId" -> id
        [] k = "dp_device_is_clone" -> clone
        [] k = "dp_device_dm_unavailable" -> dm
        [] k = "dp_vehicle_list" -> vl
        [] k = "CompletedTrainingVersion" -> ctv
        [] OTHER -> Absent] :
     flag \in {"none", "DoUninstall", "DoShutdown", "DoReboot"},
     id \in {Absent, UNREGISTERED_DONGLE_ID, "abc123"},
     clone \in {Absent, "0", "1"},
     dm \in {Absent, "0", "1"},
     vl \in {Absent, "old"},
     ctv \in {Absent, "0"}}

TrueFlags(st) == {f \in ShutdownFlags : GetBool(st, f)}

\* the state at the start of the process, the store and the environment apart
InitRest ==
  /\ pc = "init_clear"
  /\ handler = FALSE
  /\ prepared = [w \in Workers |-> 0]
  /\ workers = [w \in Workers |-> "Stopped"]
  /\ ignore = <<>>
  /\ started = FALSE
  /\ started_prev = FALSE
  /\ onroadFlag = "unset"
  /\ ci = 1
  /\ loopEnd = "none"
  /\ hwAction = "none"
  /\ exitStatus = NotExited
  /\ reg_res = "unset"
  /\ release_channel = "unset"
  /\ samplePrev = FALSE
  /\ clearsOn = 0
  /\ clearsOff = 0
  /\ onroadWrites = 0
  /\ published = 0
  /\ idAtLoopStart = "unread"
  /\ startupFailed = FALSE
  /\ cleanupRan = FALSE
  /\ reportedDead = FALSE
  /\ signalled = {}
  /\ waited = {}
  /\ sigDelivered = FALSE
  /\ died = {}
  /\ revived = {}

Init ==
  /\ store \in InitialStores
  /\ noboard \in BOOLEAN
  /\ block \in BlockValues
  /\ prepareonly \in BOOLEAN
  /\ InitRest

envVars == <<noboard, block, prepareonly>>
initLocals == <<reg_res, release_channel>>
loopVars == <<ignore, started, started_prev, onroadFlag>>
tickHist == <<samplePrev, clearsOn, clearsOff, onroadWrites, published>>
endVars == <<ci, loopEnd, hwAction, exitStatus>>
workHist == <<died, revived>>
cleanupHist == <<signalled, waited>>

----------------------------------------------------------------------------
(* manager_init, main up to the try statement                              *)

\* params.clear_all of the three start categories, and of DEVELOPMENT_ONLY on a
\* release channel
InitClear ==
  /\ pc = "init_clear"
  /\ release_channel' \in {"True", "False"}
  /\ store' = StartClear(store, release_channel' = "True")
  /\ pc' = "init_put"
  /\ UNCHANGED <<reg_res, envVars, handler, prepared, workers, loopVars, endVars, tickHist,
                 idAtLoopStart, startupFailed, cleanupRan, reportedDead, cleanupHist,
                 sigDelivered, workHist>>

\* params.put("dp_vehicle_list", get_support_vehicle_list())
InitPut ==
  /\ pc = "init_put"
  /\ store' = Put(store, "dp_vehicle_list", SupportVehicleList)
  /\ pc' = "init_seed"
  /\ UNCHANGED <<initLocals, envVars, handler, prepared, workers, loopVars, endVars, tickHist,
                 idAtLoopStart, startupFailed, cleanupRan, reportedDead, cleanupHist,
                 sigDelivered, workHist>>

\* the loop that sets the unset params
InitSeed ==
  /\ pc = "init_seed"
  /\ store' = SeedDefaults(store)
  /\ pc' = "init_register"
  /\ UNCHANGED <<initLocals, envVars, handler, prepared, workers, loopVars, endVars, tickHist,
                 idAtLoopStart, startupFailed, cleanupRan, reportedDead, cleanupHist,
                 sigDelivered, workHist>>

\* reg_res = register(...): nothing returned raises "Registration failed"
InitRegister ==
  /\ pc = "init_register"
  /\ \E r \in RegisterResults :
       /\ reg_res' = r
       /\ IF Registered(r)
          THEN /\ pc' = "init_prepare"
               /\ UNCHANGED <<startupFailed, cleanupRan, ci>>
          ELSE /\ pc' = OnInitFailure
               /\ startupFailed' = TRUE
               /\ cleanupRan' = (OnInitFailure = "cleanup_signal")
               /\ ci' = 1
  /\ UNCHANGED <<store, release_channel, envVars, handler, prepared, workers, loopVars,
                 loopEnd, hwAction, exitStatus, tickHist, idAtLoopStart, reportedDead, cleanupHist,
                 sigDelivered, workHist>>

\* for p in managed_processes.values(): p.prepare(), and the return of manager_init
InitPrepare ==
  /\ pc = "init_prepare"
  /\ prepared' = PrepareAll(prepared)
  /\ reg_res' = "unset"
  /\ release_channel' = "unset"
  /\ pc' = "main_prepareonly"
  /\ UNCHANGED <<store, envVars, handler, workers, loopVars, endVars, tickHist,
                 idAtLoopStart, startupFailed, cleanupRan, reportedDead, cleanupHist,
                 sigDelivered, workHist>>

\* if os.getenv("PREPAREONLY") is not None: return
MainPrepareOnly ==
  /\ pc = "main_prepareonly"
  /\ IF prepareonly
     THEN pc' = "exit" /\ exitStatus' = ExitStatusOf("return")
     ELSE pc' = "main_signal" /\ UNCHANGED exitStatus
  /\ UNCHANGED <<store, initLocals, envVars, handler, prepared, workers, loopVars, ci, loopEnd,
                 hwAction, tickHist, idAtLoopStart, startupFailed, cleanupRan,
                 reportedDead, cleanupHist, sigDelivered, workHist>>

\* signal.signal(signal.SIGTERM, lambda signum, frame: sys.exit(1))
MainSignal ==
  /\ pc = "main_signal"
  /\ handler' = TRUE
  /\ pc' = "thread_ignore"
  /\ UNCHANGED <<store, initLocals, envVars, prepared, workers, loopVars, endVars, tickHist,
                 idAtLoopStart, startupFailed, cleanupRan, reportedDead, cleanupHist,
                 sigDelivered, workHist>>

----------------------------------------------------------------------------
(* manager_thread                                                          *)

\* the ignore list, from the store and the environment
ThreadIgnore ==
  /\ pc = "thread_ignore"
  /\ ignore' = BuildIgnore(store, noboard, block)
  /\ idAtLoopStart' = Get(store, "DongleId")
  /\ pc' = "thread_pre"
  /\ UNCHANGED <<store, initLocals, envVars, handler, prepared, workers, started, started_prev,
                 onroadFlag, endVars, tickHist, startupFailed, cleanupRan,
                 reportedDead, cleanupHist, sigDelivered, workHist>>

\* write_onroad_params(False, params); ensure_running(.., False, ..); started_prev = False
ThreadPre ==
  /\ pc = "thread_pre"
  /\ onroadFlag' = "offroad"
  /\ workers' = ensure_running(workers, FALSE, ignore)
  /\ started_prev' = FALSE
  /\ pc' = "wait"
  /\ UNCHANGED <<store, initLocals, envVars, handler, prepared, ignore, started, endVars,
                 tickHist, idAtLoopStart, startupFailed, cleanupRan, reportedDead, cleanupHist,
                 sigDelivered, workHist>>

\* sm.update(1000); started = sm['deviceState'].started
Wait ==
  /\ pc = "wait"
  /\ \E sample \in BOOLEAN : started' = sample
  /\ samplePrev' = started
  /\ clearsOn' = 0
  /\ clearsOff' = 0
  /\ onroadWrites' = 0
  /\ published' = 0
  /\ pc' = "edge"
  /\ UNCHANGED <<store, initLocals, envVars, handler, prepared, workers, ignore, started_prev,
                 onroadFlag, endVars, idAtLoopStart, startupFailed, cleanupRan,
                 reportedDead, cleanupHist, sigDelivered, workHist>>

\* the if/elif that clears the params of the transition
Edge ==
  /\ pc = "edge"
  /\ LET cat == TransitionClear(started, started_prev)
     IN /\ store' = IF cat = "none" THEN store ELSE ClearAll(store, cat)
        /\ clearsOn' = clearsOn + (IF cat = "CLEAR_ON_ONROAD_TRANSITION" THEN 1 ELSE 0)
        /\ clearsOff' = clearsOff + (IF cat = "CLEAR_ON_OFFROAD_TRANSITION" THEN 1 ELSE 0)
  /\ pc' = "onroad"
  /\ UNCHANGED <<initLocals, envVars, handler, prepared, workers, loopVars, endVars, samplePrev,
                 onroadWrites, published, idAtLoopStart, startupFailed, cleanupRan, reportedDead, cleanupHist,
                 sigDelivered, workHist>>

\* if started != started_prev: write_onroad_params(started, params); started_prev = started
Onroad ==
  /\ pc = "onroad"
  /\ IF OnroadChanged(started, started_prev)
     THEN /\ onroadFlag' = (IF started THEN "onroad" ELSE "offroad")
          /\ onroadWrites' = onroadWrites + 1
     ELSE UNCHANGED <<onroadFlag, onroadWrites>>
  /\ started_prev' = started
  /\ pc' = "reconcile"
  /\ UNCHANGED <<store, initLocals, envVars, handler, prepared, workers, ignore, started,
                 endVars, samplePrev, clearsOn, clearsOff, published, idAtLoopStart, startupFailed, cleanupRan,
                 reportedDead, cleanupHist, sigDelivered, workHist>>

\* ensure_running(managed_processes.values(), started, .., not_run=ignore)
Reconcile ==
  /\ pc = "reconcile"
  /\ workers' = LoopReconcile(workers, started, TickIgnore(ignore, store, noboard, block))
  /\ revived' = {w \in died : workers'[w] = "Running"}
  /\ died' = {}
  /\ pc' = AfterReconcile
  /\ UNCHANGED <<store, initLocals, envVars, handler, prepared, loopVars, endVars, tickHist,
                 idAtLoopStart, startupFailed, cleanupRan, reportedDead, cleanupHist, sigDelivered>>

\* pm.send('managerState', msg)
Publish ==
  /\ pc = "publish"
  /\ revived' = {}
  /\ published' = published + 1
  /\ pc' = "scan"
  /\ UNCHANGED <<store, initLocals, envVars, handler, prepared, workers, loopVars, endVars,
                 samplePrev, clearsOn, clearsOff, onroadWrites, idAtLoopStart, startupFailed, cleanupRan, reportedDead, cleanupHist,
                 sigDelivered, died>>

\* the scan of the shutdown flags and the break
Scan ==
  /\ pc = "scan"
  /\ LET r == ShutdownScan(store)
     IN /\ store' = r.store
        /\ IF r.shutdown
           THEN /\ loopEnd' = "break"
                /\ pc' = AfterThread("break")
                /\ cleanupRan' = (AfterThread("break") = "cleanup_signal")
           ELSE /\ pc' = "wait"
                /\ UNCHANGED <<loopEnd, cleanupRan>>
  /\ UNCHANGED <<initLocals, envVars, handler, prepared, workers, loopVars, ci, hwAction,
                 exitStatus, tickHist, idAtLoopStart, startupFailed, reportedDead, cleanupHist,
                 sigDelivered, workHist>>

\* an unexpected error raised by a call of the loop body (or of the lines before it)
Raise ==
  /\ pc \in ThreadPcs
  /\ loopEnd' = "Exception"
  /\ pc' = AfterThread("Exception")
  /\ cleanupRan' = (AfterThread("Exception") = "cleanup_signal")
  /\ UNCHANGED <<store, initLocals, envVars, handler, prepared, workers, loopVars, ci, hwAction,
                 exitStatus, tickHist, idAtLoopStart, startupFailed, reportedDead, cleanupHist,
                 sigDelivered, workHist>>

----------------------------------------------------------------------------
(* manager_cleanup, the rest of main, __main__                             *)

\* one iteration of "for p in managed_processes.values(): p.stop(block=False)"
CleanupSignal ==
  /\ pc = "cleanup_signal"
  /\ workers' = Stop(workers, WorkerOrder[ci], FALSE)
  /\ signalled' = signalled \cup {WorkerOrder[ci]}
  /\ IF ci < Len(WorkerOrder)
     THEN ci' = ci + 1 /\ pc' = pc
     ELSE ci' = 1 /\ pc' = AfterSignalLoop
  /\ UNCHANGED <<store, initLocals, envVars, handler, prepared, loopVars, loopEnd, hwAction,
                 exitStatus, tickHist, idAtLoopStart, startupFailed, cleanupRan,
                 reportedDead, waited, sigDelivered, workHist>>

\* one iteration of "for p in managed_processes.values(): p.stop(block=True)"
CleanupWait ==
  /\ pc = "cleanup_wait"
  /\ workers' = Stop(workers, WorkerOrder[ci], TRUE)
  /\ waited' = waited \cup {WorkerOrder[ci]}
  /\ IF ci < Len(WorkerOrder)
     THEN ci' = ci + 1 /\ pc' = pc
     ELSE ci' = 1 /\ pc' = "cleanup_report"
  /\ UNCHANGED <<store, initLocals, envVars, handler, prepared, loopVars, loopEnd, hwAction,
                 exitStatus, tickHist, idAtLoopStart, startupFailed, cleanupRan,
                 reportedDead, signalled, sigDelivered, workHist>>

\* cloudlog.info("everything is dead"), the end of the finally clause: a pending
\* SystemExit goes on to __main__, which does not catch it
CleanupReport ==
  /\ pc = "cleanup_report"
  /\ reportedDead' = TRUE
  /\ IF loopEnd = "SystemExit"
     THEN pc' = "exit" /\ exitStatus' = ExitStatusOf("SystemExit")
     ELSE pc' = "hw" /\ UNCHANGED exitStatus
  /\ UNCHANGED <<store, initLocals, envVars, handler, prepared, workers, loopVars, ci, loopEnd,
                 hwAction, tickHist, idAtLoopStart, startupFailed, cleanupRan,
                 sigDelivered, workHist, cleanupHist>>

\* the hardware action of main, its return and sys.exit(0) of __main__
MainHw ==
  /\ pc = "hw"
  /\ hwAction' = HwDecision(store)
  /\ pc' = "exit"
  /\ exitStatus' = ExitStatusOf("return")
  /\ UNCHANGED <<store, initLocals, envVars, handler, prepared, workers, loopVars, ci, loopEnd,
                 tickHist, idAtLoopStart, startupFailed, cleanupRan, reportedDead, cleanupHist,
                 sigDelivered, workHist>>

\* the except Exception clause of __main__: managed_processes['ui'].stop(), the
\* text window, raise
MainFail ==
  /\ pc = "main_fail"
  /\ workers' = Stop(workers, "ui", TRUE)
  /\ pc' = "exit"
  /\ exitStatus' = ExitStatusOf("Exception")
  /\ UNCHANGED <<store, initLocals, envVars, handler, prepared, loopVars, ci, loopEnd, hwAction,
                 tickHist, idAtLoopStart, startupFailed, cleanupRan, reportedDead, cleanupHist,
                 sigDelivered, workHist>>

----------------------------------------------------------------------------
(* The environment                                                         *)

\* the positions at which the supervisor reads the shutdown flags next: the scan
\* of the loop and the hardware decision of main
FlagReadPcs == {"scan", "hw"}

\* another process (the UI, a worker) sets a shutdown flag.  No step of the
\* supervisor other than Scan and MainHw reads or writes a flag, so a flag set at
\* any earlier position is the same flag set just before the next read.
SetFlag(f) ==
  /\ pc \in FlagReadPcs
  /\ ~GetBool(store, f)
  /\ Cardinality(TrueFlags(store)) < MaxFlags
  /\ store' = Put(store, f, "1")
  /\ UNCHANGED <<pc, initLocals, envVars, handler, prepared, workers, loopVars, endVars,
                 tickHist, idAtLoopStart, startupFailed, cleanupRan, reportedDead, cleanupHist,
                 sigDelivered, workHist>>

\* a running worker dies, a signalled worker exits
Die(w) ==
  /\ pc # "exit"
  /\ workers[w] \in {"Running", "Stopping"}
  /\ workers' = [workers EXCEPT ![w] = "Stopped"]
  /\ died' = IF workers[w] = "Running" /\ pc \in ThreadPcs THEN died \cup {w} ELSE died
  /\ UNCHANGED <<pc, store, initLocals, envVars, handler, prepared, loopVars, endVars,
                 tickHist,
                 idAtLoopStart, startupFailed, cleanupRan, reportedDead, cleanupHist,
                 sigDelivered, revived>>

\* SIGTERM is delivered while the handler is installed: sys.exit(1) is raised in
\* the main thread at its current position
Sigterm ==
  /\ handler
  /\ pc \in ThreadPcs \cup CleanupPcs \cup {"hw"}
  /\ sigDelivered' = TRUE
  /\ pc' = OnSigterm(pc)
  /\ IF pc' = "exit"
     THEN exitStatus' = ExitStatusOf("SystemExit") /\ UNCHANGED <<loopEnd, cleanupRan>>
     ELSE IF pc \in ThreadPcs /\ pc' \notin ThreadPcs
          THEN /\ loopEnd' = "SystemExit"
               /\ cleanupRan' = (pc' = "cleanup_signal")
               /\ UNCHANGED exitStatus
          ELSE UNCHANGED <<loopEnd, cleanupRan, exitStatus>>
  /\ UNCHANGED <<store, initLocals, envVars, handler, prepared, workers, loopVars, ci, hwAction,
                 tickHist, idAtLoopStart, startupFailed, reportedDead, cleanupHist, workHist>>

----------------------------------------------------------------------------

Next ==
  \/ InitClear
  \/ InitPut
  \/ InitSeed
  \/ InitRegister
  \/ InitPrepare
  \/ MainPrepareOnly
  \/ MainSignal
  \/ ThreadIgnore
  \/ ThreadPre
  \/ Wait
  \/ Edge
  \/ Onroad
  \/ Reconcile
  \/ Publish
  \/ Scan
  \/ Raise
  \/ CleanupSignal
  \/ CleanupWait
  \/ CleanupReport
  \/ MainHw
  \/ MainFail
  \/ \E f \in ShutdownFlags : SetFlag(f)
  \/ \E w \in Workers : Die(w)
  \/ Sigterm

Spec == Init /\ [][Next]_vars

\* the stores of a registered device at a start: what the last run left under the
\* keys of the cleared categories, "old" being a value no step of this run writes
BootStores ==
  {[k \in Keys |->
      CASE k = flag -> "1"
        [] k = "LastManagerExitReason" -> reason
        [] k = "CurrentRoute" -> route
        [] k = "JoystickDebugMode" -> joystick
        [] k = "ExperimentalLongitudinalEnabled" -> experimental
        [] k = "DongleId" -> "abc123"
        [] OTHER -> Absent] :
     flag \in {"none", "DoReboot"},
     reason \in {Absent, "old"},
     route \in {Absent, "old"},
     joystick \in {Absent, "old"},
     experimental \in {Absent, "old"}}

InitBoot ==
  /\ store \in BootStores
  /\ noboard = FALSE
  /\ block = <<"">>
  /\ prepareonly \in BOOLEAN
  /\ InitRest

\* the supervisor started on a store that holds values of the last run
SpecBoot == InitBoot /\ [][Next]_vars

\* the gate inputs kept in the store
GateKeys == {"DongleId", "dp_device_is_clone", "dp_device_dm_unavailable"}

\* the value of a gate input that disables workers
GateOn(k) == IF k = "DongleId" THEN UNREGISTERED_DONGLE_ID ELSE "1"

\* another process writes a gate input while the loop waits for its next tick
SetGate(k) ==
  /\ pc = "wait"
  /\ store[k] # GateOn(k)
  /\ store' = Put(store, k, GateOn(k))
  /\ UNCHANGED <<pc, initLocals, envVars, handler, prepared, workers, loopVars, endVars,
                 tickHist, idAtLoopStart, startupFailed, cleanupRan, reportedDead,
                 cleanupHist, sigDelivered, workHist>>

NextGate ==
  \/ Next
  \/ \E k \in GateKeys : SetGate(k)

\* the starts without NOBOARD and BLOCK: the gate inputs left are those of the store
InitNoEnv == Init /\ ~noboard /\ block = <<"">>

\* the supervisor with gate inputs that change while the loop runs
SpecGate == InitNoEnv /\ [][NextGate]_vars

\* values of os.getenv("BLOCK", "").split(","): BLOCK unset or empty, one name,
\* names with empty fields between them, a name twice
BlockLists == {<<"">>, <<"ui">>, <<"uploader", "">>, <<"", "ui", "", "pandad">>,
               <<"ui", "ui">>}

\* the stores manager_thread can find when it builds the list: the defaults are
\* seeded, the start categories are cleared, the gate inputs are any
GateStores ==
  {[k \in Keys |->
      CASE k = "DongleId"                 -> id
        [] k = "dp_device_is_clone"       -> clone
        [] k = "dp_device_dm_unavailable" -> dm
        [] k = "dp_vehicle_list"          -> SupportVehicleList
        [] k = "CompletedTrainingVersion" -> "0"
        [] OTHER                          -> Absent] :
     id \in RegisterResults, clone \in {"0", "1"}, dm \in {"0", "1"}}

\* main at the call of manager_thread, for every combination of the gate inputs
InitIgnore ==
  /\ pc = "thread_ignore"
  /\ store \in GateStores
  /\ noboard \in BOOLEAN
  /\ block \in BlockLists
  /\ prepareonly = FALSE
  /\ handler = TRUE
  /\ prepared = [w \in Workers |-> 1]
  /\ workers = [w \in Workers |-> "Stopped"]
  /\ ignore = <<>>
  /\ started = FALSE
  /\ started_prev = FALSE
  /\ onroadFlag = "unset"
  /\ ci = 1
  /\ loopEnd = "none"
  /\ hwAction = "none"
  /\ exitStatus = NotExited
  /\ reg_res = "unset"
  /\ release_channel = "unset"
  /\ samplePrev = FALSE
  /\ clearsOn = 0
  /\ clearsOff = 0
  /\ onroadWrites = 0
  /\ published = 0
  /\ idAtLoopStart = "unread"
  /\ startupFailed = FALSE
  /\ cleanupRan = FALSE
  /\ reportedDead = FALSE
  /\ signalled = {}
  /\ waited = {}
  /\ sigDelivered = FALSE
  /\ died = {}
  /\ revived = {}

\* the lines of manager_thread that build the list, and the first reconciliation
NextIgnore ==
  \/ ThreadIgnore
  \/ ThreadPre

SpecIgnore == InitIgnore /\ [][NextIgnore]_vars

\* p.stop(...) raises inside one of the two loops of manager_cleanup: neither
\* manager_cleanup nor the finally clause of main catches, so the exception (in place
\* of a pending one) reaches the except Exception clause of __main__
StopRaises ==
  /\ pc \in {"cleanup_signal", "cleanup_wait"}
  /\ pc' = "main_fail"
  /\ UNCHANGED <<store, initLocals, envVars, handler, prepared, workers, loopVars, endVars,
                 tickHist, idAtLoopStart, startupFailed, cleanupRan, reportedDead,
                 cleanupHist, sigDelivered, workHist>>

NextFail ==
  \/ Next
  \/ StopRaises

\* the supervisor with workers whose stop can fail
SpecFail == InitNoEnv /\ [][NextFail]_vars

TypeOK ==
  /\ store \in [Keys -> STRING]
  /\ workers \in [Workers -> {"Stopped", "Running", "Stopping"}]
  /\ exitStatus \in {NotExited, 0, 1}
  /\ loopEnd \in {"none", "break", "Exception", "SystemExit"}
  /\ hwAction \in {"none", "uninstall", "reboot", "shutdown"}

----------------------------------------------------------------------------
(* Properties                                                              *)

AllStopped == \A w \in Workers : workers[w] = "Stopped"

Exited == pc = "exit"

\* a step of Scan: the scan position is left, and not by an error or a signal
ScanStep == pc = "scan" /\ pc' # "scan" /\ loopEnd' \notin {"Exception", "SystemExit"}

\* the positions of a tick at which the edge detection of the tick is done
AfterEdgePcs == {"onroad", "reconcile", "publish", "scan", "wait"}

\* C1: on every tick, CLEAR_ON_ONROAD_TRANSITION is cleared exactly once when the
\* sample is true and the previous sample (False before the first tick) was false,
\* CLEAR_ON_OFFROAD_TRANSITION exactly once when the sample is false and the
\* previous one was true, and neither is cleared when the two samples are equal.
C1_EdgeClears ==
  pc \in AfterEdgePcs =>
    /\ clearsOn = (IF started /\ ~samplePrev THEN 1 ELSE 0)
    /\ clearsOff = (IF ~started /\ samplePrev THEN 1 ELSE 0)

\* a tick that sampled false after a tick that sampled true has cleared once
C1_Witness == pc = "reconcile" /\ ~started /\ samplePrev /\ clearsOff = 1 /\ clearsOn = 0

C4_Original ==
  (Exited /\ startupFailed) => (cleanupRan /\ reportedDead /\ exitStatus \notin {0, NotExited})

\* C4: a startup failure (register returns nothing) exits with status 1 without
\* entering manager_cleanup; only the except clause of __main__ runs, and no
\* worker has been started.
C4_StartupFailure ==
  startupFailed =>
    /\ pc \in {"main_fail", "exit"}
    /\ ~cleanupRan /\ ~reportedDead
    /\ AllStopped
    /\ loopEnd = "none" /\ hwAction = "none"
    /\ Exited => exitStatus = 1

\* registration failed and the process exited
C4_Witness == Exited /\ startupFailed /\ exitStatus = 1 /\ ~handler

\* C5: the seeding loop of manager_init keeps every value the store holds when it
\* runs and writes the default of exactly the absent keys; seeding the seeded
\* store again changes nothing; the rest of manager_init leaves the store alone.
C5_SeedKeeps ==
  /\ [][(pc = "init_seed" /\ pc' = "init_register") =>
          /\ \A k \in Keys :
               store'[k] = IF k \in DefaultKeys /\ store[k] = Absent
                           THEN default_params[DefaultOf(k)][2]
                           ELSE store[k]
          /\ SeedDefaults(store') = store']_vars
  /\ [][(pc \in {"init_register", "init_prepare"}) => (store' = store)]_vars

\* after the seeding, an operator's value that differs from the default is there
C5_Witness ==
  /\ pc = "init_prepare"
  /\ store["dp_device_is_clone"] = "1"
  /\ store["dp_device_dm_unavailable"] = "0"
  /\ store["CompletedTrainingVersion"] = "0"

\* the order of the flags the claim gives
ClaimedOrder == <<"DoUninstall", "DoReboot", "DoShutdown", "dp_device_reset_conf">>

FirstTrue(st, order) ==
  order[CHOOSE i \in 1..Len(order) :
          GetBool(st, order[i]) /\ \A j \in 1..(i - 1) : ~GetBool(st, order[j])]

LastTrue(st, order) ==
  order[CHOOSE i \in 1..Len(order) :
          GetBool(st, order[i]) /\ \A j \in (i + 1)..Len(order) : ~GetBool(st, order[j])]

\* C6 as claimed: the recorded reason is the first true flag in the order
\* uninstall, reboot, shutdown, factory reset, and the loop exits.
C6_Original ==
  [][(ScanStep /\ TrueFlags(store) # {}) =>
       /\ loopEnd' = "break"
       /\ store'["LastManagerExitReason"] = FirstTrue(store, ClaimedOrder)]_vars

\* C6: when the scan finds flags true, LastManagerExitReason ends holding one
\* reason, the LAST true flag in the order of the scan (DoUninstall, DoShutdown,
\* DoReboot, dp_device_reset_conf), and every true flag makes the loop exit.
C6_LastFlagWins ==
  [][(ScanStep /\ TrueFlags(store) # {}) =>
       /\ loopEnd' = "break"
       /\ store'["LastManagerExitReason"] = LastTrue(store, ShutdownParams)]_vars

\* uninstall and reboot were both requested: the reason recorded is the reboot
C6_Witness ==
  /\ loopEnd = "break"
  /\ pc = "cleanup_signal"
  /\ GetBool(store, "DoUninstall") /\ GetBool(store, "DoReboot")
  /\ store["LastManagerExitReason"] = "DoReboot"

\* C7: with uploader in BLOCK and the stored DongleId absent or the unregistered
\* sentinel when the loop starts, uploader and manage_athenad are in the ignore
\* list from then on and neither is ever running.
C7_NeverRuns ==
  (idAtLoopStart \in {Absent, UNREGISTERED_DONGLE_ID} /\ "uploader" \in Range(block)) =>
    /\ {"uploader", "manage_athenad"} \subseteq Range(ignore)
    /\ workers["uploader"] = "Stopped"
    /\ workers["manage_athenad"] = "Stopped"

\* onroad, the reconciler has started the other workers, not these two
C7_Witness ==
  /\ pc = "publish" /\ started
  /\ idAtLoopStart = UNREGISTERED_DONGLE_ID /\ "uploader" \in Range(block)
  /\ workers["ui"] = "Running" /\ workers["dmonitoringd"] = "Running"
  /\ workers["uploader"] = "Stopped" /\ workers["manage_athenad"] = "Stopped"

\* C8: every tick reconciles before it publishes and scans, and the
\* reconciliation starts every stopped worker that should run (its predicate holds
\* for the sample and it is not ignored), so a worker that died is running again
\* after the reconciliation of the next tick.
C8_Restart ==
  /\ [][(pc = "reconcile" /\ pc' = "publish") =>
          /\ \A w \in Workers :
               (workers[w] = "Stopped" /\ ShouldRun(w, started) /\ w \notin Range(ignore))
                 => workers'[w] = "Running"
          /\ revived' = {w \in died : ShouldRun(w, started) /\ w \notin Range(ignore)}]_vars
  /\ [][(pc' = "publish" /\ pc # "publish") => pc = "reconcile"]_vars
  /\ [][(pc' = "scan" /\ pc # "scan") => pc = "publish"]_vars
  /\ [][(pc' = "wait" /\ pc \notin {"wait", "thread_pre"}) => pc = "scan"]_vars

\* a worker that died while it was running has been started again
C8_Witness == pc = "publish" /\ "ui" \in revived /\ workers["ui"] = "Running"

\* C9: a SIGTERM delivered while manager_thread runs takes the main thread
\* straight to manager_cleanup, and no step of the loop is taken after it.
C9_Sigterm ==
  /\ [][(pc \in ThreadPcs /\ sigDelivered' /\ ~sigDelivered) =>
          (pc' = "cleanup_signal" /\ loopEnd' = "SystemExit" /\ cleanupRan')]_vars
  /\ [](sigDelivered => pc \notin ThreadPcs)

\* the signal arrived in the loop and manager_cleanup is waiting for the workers
C9_Witness ==
  sigDelivered /\ loopEnd = "SystemExit" /\ pc = "cleanup_wait" /\ onroadFlag = "onroad"

\* C10 as claimed: a shutdown request exits 0, a startup failure and an exception
\* escaping the loop exit non-zero.
C10_Original ==
  Exited =>
    /\ (loopEnd = "break" /\ ~sigDelivered) => exitStatus = 0
    /\ startupFailed => exitStatus \notin {0, NotExited}
    /\ loopEnd = "Exception" => exitStatus \notin {0, NotExited}

\* C10: the process exits 1 after a startup failure or a SIGTERM and 0 otherwise:
\* after a shutdown request, and also after an Exception that escaped the loop,
\* which main catches.
C10_ExitStatus ==
  Exited =>
    /\ exitStatus = (IF startupFailed \/ sigDelivered THEN 1 ELSE 0)
    /\ (loopEnd = "Exception" /\ ~sigDelivered) => exitStatus = 0

\* an Exception escaped the loop and the process exited 0
C10_Witness == Exited /\ loopEnd = "Exception" /\ exitStatus = 0 /\ reportedDead

\* C11: when register returns nothing, startup is aborted: the loop is never
\* entered, no worker is prepared and none is started.  The unregistered sentinel
\* is a result like any identity: startup goes on to prepare, and a stored
\* sentinel only puts manage_athenad and uploader into the ignore list of the loop.
C11_RegistrationFailure ==
  /\ [][(pc = "init_register" /\ pc' # pc) =>
          /\ startupFailed' <=> (reg_res' = Absent)
          /\ (reg_res' = UNREGISTERED_DONGLE_ID) => (pc' = "init_prepare")]_vars
  /\ [](startupFailed =>
          /\ pc \notin ThreadPcs /\ ~handler /\ loopEnd = "none"
          /\ \A w \in Workers : prepared[w] = 0
          /\ AllStopped)
  /\ []((pc \in ThreadPcs \ {"thread_ignore"} /\ idAtLoopStart = UNREGISTERED_DONGLE_ID) =>
          (~startupFailed /\ {"manage_athenad", "uploader"} \subseteq Range(ignore)))

\* register returned the sentinel and manager_init goes on to prepare the workers
C11_Witness ==
  pc = "init_prepare" /\ reg_res = UNREGISTERED_DONGLE_ID /\ ~startupFailed /\ prepared["ui"] = 0

\* C12: every tick sends exactly one managerState message, after the
\* reconciliation of that tick and before its scan of the shutdown flags; the tick
\* whose scan finds a flag and breaks has sent its message as well.
C12_PublishOncePerTick ==
  /\ [](pc \in {"edge", "onroad", "reconcile", "publish"} => published = 0)
  /\ [](pc = "scan" => published = 1)
  /\ [][(published' # published /\ published' # 0) =>
          (pc = "publish" /\ published' = published + 1 /\ pc' = "scan")]_vars
  /\ [][(pc' = "publish" /\ pc # "publish") =>
          (pc = "reconcile" /\ workers' = ensure_running(workers, started, ignore))]_vars
  /\ [][(loopEnd' = "break" /\ loopEnd # "break") =>
          (pc = "scan" /\ published = 1 /\ published' = 1)]_vars

C12_Witness == loopEnd = "break" /\ pc = "cleanup_signal" /\ published = 1 /\ ci = 1

\* C13: write_onroad_params is called with False once before the loop, and inside
\* the loop exactly on the ticks whose sample differs from the sample of the tick
\* before, with the new sample, before that tick's reconciliation.
C13_OnroadWrites ==
  /\ [][(pc = "thread_pre" /\ pc' = "wait") => (onroadFlag = "unset" /\ onroadFlag' = "offroad")]_vars
  /\ [][(onroadFlag' # onroadFlag) => (pc \in {"thread_pre", "onroad"})]_vars
  /\ [](pc \in {"edge", "onroad"} => onroadWrites = 0)
  /\ [](pc \in {"reconcile", "publish", "scan"} =>
          /\ onroadWrites = (IF started # samplePrev THEN 1 ELSE 0)
          /\ onroadFlag = (IF started THEN "onroad" ELSE "offroad"))
  /\ [][(pc = "reconcile" /\ pc' # pc /\ loopEnd' = "none") =>
          (workers' = ensure_running(workers, onroadFlag = "onroad", ignore))]_vars

C13_Witness ==
  pc = "reconcile" /\ started /\ ~samplePrev /\ onroadWrites = 1 /\ onroadFlag = "onroad"

\* C14: manager_cleanup is two-phase: every worker has got its stop(block=False)
\* before the first stop(block=True) is called, "everything is dead" is logged only
\* after stop(block=True) has returned for every worker, and main decides on the
\* hardware action only after that log.
C14_TwoPhase ==
  /\ [][(waited' # waited) => (signalled = Workers /\ pc = "cleanup_wait")]_vars
  /\ [][(signalled' # signalled) => (waited = {} /\ pc = "cleanup_signal")]_vars
  /\ [][(reportedDead' /\ ~reportedDead) => (waited = Workers /\ signalled = Workers)]_vars
  /\ [][(hwAction' # hwAction) => (pc = "hw" /\ reportedDead)]_vars
  /\ [](hwAction # "none" => (reportedDead /\ waited = Workers))

C14_Witness ==
  hwAction = "reboot" /\ reportedDead /\ waited = Workers /\ signalled = Workers

\* C15 as claimed: the not-run set a tick's reconciliation uses is the one the
\* gate inputs of the store give at that tick.
C15_Original ==
  pc = "reconcile" => Range(ignore) = Range(BuildIgnore(store, noboard, block))

\* C15: the not-run set is built once, before the loop, from the gate inputs as
\* they are then; every tick's reconciliation uses that same set together with
\* the tick's own onroad sample, whatever is written to the gate inputs meanwhile.
C15_IgnoreBuiltOnce ==
  /\ [][(pc = "thread_ignore" /\ pc' = "thread_pre") =>
          (ignore' = BuildIgnore(store, noboard, block))]_vars
  /\ [][(pc # "thread_ignore") => (ignore' = ignore)]_vars
  /\ [][(pc = "reconcile" /\ pc' = "publish") =>
          (workers' = ensure_running(workers, started, ignore))]_vars
  /\ [][(pc = "wait" /\ pc' = "edge") => (started' \in BOOLEAN /\ samplePrev' = started)]_vars

C15_Witness ==
  /\ pc = "publish"
  /\ GetBool(store, "dp_device_is_clone")
  /\ "uploader" \notin Range(ignore)
  /\ workers["uploader"] = "Running"

\* C16 as claimed: a stop that fails inside manager_cleanup does not leave the
\* stop(block=False) or the stop(block=True) of another worker unissued: when the
\* process has exited after manager_cleanup was entered (and no SIGTERM cut it
\* short), every worker has had both stops.
C16_Original ==
  (Exited /\ cleanupRan /\ ~sigDelivered) => (signalled = Workers /\ waited = Workers)

\* C17: for every combination of the gate inputs, the list built at loop start
\* holds manage_athenad and uploader when the stored identity is absent or the
\* unregistered sentinel or the clone flag is set, dmonitoringd and
\* dmonitoringmodeld when the monitoring-unavailable flag is set, pandad when
\* NOBOARD is set, and every non-empty field of BLOCK whatever the other inputs
\* are.
C17_IgnorePolicy ==
  pc \in {"thread_pre", "wait"} =>
    /\ (Get(store, "DongleId") \in {Absent, UNREGISTERED_DONGLE_ID}
          \/ GetBool(store, "dp_device_is_clone"))
         => {"manage_athenad", "uploader"} \subseteq Range(ignore)
    /\ GetBool(store, "dp_device_dm_unavailable")
         => {"dmonitoringd", "dmonitoringmodeld"} \subseteq Range(ignore)
    /\ noboard => "pandad" \in Range(ignore)
    /\ \A i \in 1..Len(block) : block[i] # "" => block[i] \in Range(ignore)
    /\ "" \notin Range(ignore)

C17_Witness ==
  /\ pc = "wait"
  /\ GetBool(store, "dp_device_dm_unavailable") /\ ~GetBool(store, "dp_device_is_clone")
  /\ Get(store, "DongleId") = "abc123"
  /\ noboard /\ block = <<"", "ui", "", "pandad">>
  /\ ignore = <<"manage_athenad", "uploader", "dmonitoringd", "dmonitoringmodeld",
                "pandad", "ui", "pandad">>

\* C18: prepare() is called exactly once for every worker, whether or not the
\* worker is in the ignore list or would run, and before manager_thread is entered;
\* with PREPAREONLY set, main returns after manager_init: no handler is installed,
\* the loop is not entered, no worker is started and manager_cleanup is not run.
C18_PrepareOnce ==
  /\ [][(prepared' # prepared) =>
          (pc = "init_prepare" /\ \A w \in Workers : prepared[w] = 0 /\ prepared'[w] = 1)]_vars
  /\ [](pc \in ThreadPcs => \A w \in Workers : prepared[w] = 1)
  /\ [][prepareonly => (workers' = workers /\ pc' \notin ThreadPcs \cup CleanupPcs)]_vars
  /\ []((Exited /\ prepareonly /\ ~startupFailed) =>
          /\ \A w \in Workers : prepared[w] = 1
          /\ AllStopped /\ ~handler /\ ~cleanupRan /\ signalled = {}
          /\ loopEnd = "none" /\ idAtLoopStart = "unread" /\ onroadFlag = "unset")

C18_Witness ==
  /\ Exited /\ prepareonly /\ ~startupFailed /\ ~cleanupRan
  /\ \A w \in Workers : prepared[w] = 1

\* main's step from the end of manager_cleanup to its return
HwStep == pc = "hw" /\ pc' = "exit" /\ ~sigDelivered'

\* C19: a hardware action is invoked at most once, only after manager_cleanup has
\* returned from a loop that ended by the break or by a caught Exception; it is
\* uninstall if DoUninstall is true then, else reboot if DoReboot is, else shutdown
\* if DoShutdown is, else none (so none when only dp_device_reset_conf was set);
\* none is invoked when SIGTERM ended the loop.
C19_HardwareAction ==
  /\ [][(hwAction' # hwAction) =>
          (HwStep /\ hwAction = "none" /\ reportedDead /\ loopEnd \in {"break", "Exception"})]_vars
  /\ [][HwStep =>
          /\ (hwAction' = "uninstall") <=> GetBool(store, "DoUninstall")
          /\ (hwAction' = "reboot") <=>
               (~GetBool(store, "DoUninstall") /\ GetBool(store, "DoReboot"))
          /\ (hwAction' = "shutdown") <=>
               (TrueFlags(store) \cap {"DoUninstall", "DoReboot", "DoShutdown"} = {"DoShutdown"})
          /\ (hwAction' = "none") <=>
               (TrueFlags(store) \subseteq {"dp_device_reset_conf"})]_vars
  /\ []((loopEnd = "SystemExit" \/ sigDelivered) => hwAction = "none")

C19_Witness ==
  /\ Exited /\ loopEnd = "Exception" /\ hwAction = "reboot"
  /\ GetBool(store, "DoShutdown") /\ GetBool(store, "DoReboot")

\* the categories manager_init clears at every start
StartCategories == {"CLEAR_ON_MANAGER_START", "CLEAR_ON_ONROAD_TRANSITION",
                    "CLEAR_ON_OFFROAD_TRANSITION"}

\* the positions from the end of the clears to the first wait of the loop
BeforeFirstTick ==
  \/ pc \in {"init_put", "init_seed", "init_register", "init_prepare",
              "main_prepareonly", "main_signal", "thread_ignore", "thread_pre"}
  \/ pc = "wait" /\ published = 0

====
